---- MODULE Spec2Model ----
(***************************************************************************)
(* A model of perftool/utils.py: the sampler, the benchmark runner and its *)
(* result parser, the config lookup and the CSV dataset writer.            *)
(*                                                                         *)
(* Five specifications share the module's variables:                       *)
(*   Spec        the dataset file under init_csv and write_into_csv        *)
(*   SpecCycle   one sample_and_bench call, step by step                   *)
(*   SpecSample  sample(min_value, max_value, mean), loop step by loop step*)
(*   SpecParse   the parsing lines of bench over every short output text   *)
(*   SpecConc    two processes running init_csv; write_into_csv on one path*)
(***************************************************************************)
EXTENDS Integers, Sequences, FiniteSets, TLC

VARIABLES
    file,       \* the dataset path: [exists, lines], lines a sequence of rows of text cells
    err,        \* outcome of the last call: [kind, msg]; kind "" is a normal return
    last,       \* history: the last call made on the dataset and the file before it
    origin,     \* history: which call created the file, and the header it wrote
    appended,   \* history: the records handed to write_into_csv since the file was created
    pc,         \* position of the running call (SpecCycle, SpecSample, SpecParse)
    args,       \* arguments of the running call
    value,      \* sample's local `value`; sample_and_bench's `parameter`
    draws,      \* number of distribution_sample calls made by the running sample
    stdout,     \* text captured from the benchmark subprocess
    output,     \* bench's return value
    result,     \* sample_and_bench's return value
    steps,      \* history: the components the running call has entered, in order
    procs       \* SpecConc: per process [pc, row]; <<>> elsewhere

vars == <<file, err, last, origin, appended, pc, args, value, draws, stdout,
          output, result, steps, procs>>
fileVars == <<file, last, origin, appended>>
callVars == <<pc, args, value, draws, stdout, output, result, steps>>

(***************************************************************************)
(* Bounds of the model.                                                    *)
(***************************************************************************)
MaxLines == 3       \* longest dataset file explored, header included
MaxBatch == 1       \* most rows in one write_into_csv call
MaxLen == 7         \* longest benchmark output text explored by SpecParse
MaxInt == 2         \* min_value, max_value and mean range over 0..MaxInt

\* Python's None, and a present value: optional values are sequences of length <= 1
None == <<>>
Some(x) == <<x>>
NoErr == [kind |-> "", msg |-> <<>>]
Raise(kind, msg) == [kind |-> kind, msg |-> msg]

RECURSIVE SeqsUpTo(_, _)
SeqsUpTo(S, n) ==
    IF n = 0 THEN {<<>>}
    ELSE LET shorter == SeqsUpTo(S, n - 1)
         IN  shorter \cup {Append(s, x) : s \in {t \in shorter : Len(t) = n - 1}, x \in S}

SetOf(s) == {s[i] : i \in 1..Len(s)}

(***************************************************************************)
(* config.json and load_bench_function_data.                               *)
(* Three benchmarks: one plain, one whose two column names are those of    *)
(* the first in the opposite roles, one sharing only the output column.    *)
(***************************************************************************)
ConfigJson ==
    [benches |-> ("sort_vec" :> [parameter |-> "size",    output |-> "time_ms"])
              @@ ("vec_sort" :> [parameter |-> "time_ms", output |-> "size"])
              @@ ("fib"      :> [parameter |-> "n",       output |-> "time_ms"])]

\* the two column names of a configured benchmark, parameter first
HeadersOf(b) == <<ConfigJson.benches[b].parameter, ConfigJson.benches[b].output>>
Configured == DOMAIN ConfigJson.benches

BenchNames == DOMAIN ConfigJson.benches \cup {"absent"}

\* config["benches"][bench_function]: the entry, or KeyError
LoadBenchFunctionData(bench_function) ==
    IF bench_function \in DOMAIN ConfigJson.benches
    THEN [ok |-> TRUE, data |-> ConfigJson.benches[bench_function], err |-> NoErr]
    ELSE [ok |-> FALSE, data |-> None, err |-> Raise("KeyError", <<bench_function>>)]

(***************************************************************************)
(* Text, digits and floats.  A text is a sequence of one-character strings.*)
(* A float is [ip, frac]: the integer part and the fraction's digits with  *)
(* trailing zeros dropped, which is what float() keeps of a short decimal. *)
(***************************************************************************)
Digits == <<"0", "1", "2", "3", "4", "5", "6", "7", "8", "9">>
IsDigit(c) == \E d \in 1..Len(Digits) : Digits[d] = c
DigitVal(c) == (CHOOSE d \in 1..Len(Digits) : Digits[d] = c) - 1

RECURSIVE DecVal(_)
DecVal(s) == IF s = <<>> THEN 0
             ELSE 10 * DecVal(SubSeq(s, 1, Len(s) - 1)) + DigitVal(s[Len(s)])

RECURSIVE StripZeros(_)
StripZeros(s) == IF s # <<>> /\ s[Len(s)] = "0"
                 THEN StripZeros(SubSeq(s, 1, Len(s) - 1)) ELSE s

\* float(time_taken) for a text of the form digits '.' digits
ParseFloat(s) ==
    LET dot == CHOOSE k \in 1..Len(s) : s[k] = "."
    IN  [ip |-> DecVal(SubSeq(s, 1, dot - 1)),
         frac |-> StripZeros(SubSeq(s, dot + 1, Len(s)))]

RECURSIVE Concat(_)
Concat(s) == IF s = <<>> THEN "" ELSE s[1] \o Concat(Tail(s))

\* the text to_csv writes for an int and for a float
IntStr(n) == ToString(n)
FloatStr(f) == ToString(f.ip) \o "." \o (IF f.frac = <<>> THEN "0" ELSE Concat(f.frac))

(***************************************************************************)
(* sample: random.randrange and the lognormal branch of distribution_sample*)
(***************************************************************************)
Ints == (0 - MaxInt)..MaxInt

\* random.randrange(min_value, max_value): every integer of [min_value, max_value)
\* can be drawn; the empty range raises ValueError
Randrange(min_value, max_value) == min_value..(max_value - 1)

\* int(np.random.lognormal(mean=np.log(mean) + sigma**2, sigma=sigma)) for
\* mean >= 0: log(0) is -inf and the draw is 0.0; otherwise any positive float,
\* of which the model keeps the integer parts up to MaxInt + 1
LognormalInts(mean) == IF mean = 0 THEN {0} ELSE 0..(MaxInt + 1)

\* a faulty variant of UseUniform: the lognormal branch selected
UseLognormal == FALSE

\* distribution_sample's default argument use_uniform, which the loop never overrides
UseUniform == TRUE

\* the values int(distribution_sample()) can take
DistributionSample(min_value, max_value, mean) ==
    IF UseUniform THEN Randrange(min_value, max_value) ELSE LognormalInts(mean)

(***************************************************************************)
(* bench's parsing lines: re.findall(r"\d+\.\d+", text)[0] and float().     *)
(***************************************************************************)
RECURSIVE DigitRunEnd(_, _)
\* the last index of the run of digits that starts at i; i - 1 when there is none
DigitRunEnd(text, i) ==
    IF i <= Len(text) /\ IsDigit(text[i]) THEN DigitRunEnd(text, i + 1) ELSE i - 1

\* the end of the match of \d+\.\d+ that starts at i (both \d+ greedy), 0 when
\* there is none: giving digits back never helps, the next character is a digit
MatchEnd(text, i) ==
    LET a == DigitRunEnd(text, i)
    IN  IF a >= i /\ a + 1 <= Len(text) /\ text[a + 1] = "."
        THEN LET b == DigitRunEnd(text, a + 2) IN IF b >= a + 2 THEN b ELSE 0
        ELSE 0

RECURSIVE FindAll(_, _)
\* re.findall: the non-overlapping matches from index i on, left to right
FindAll(text, i) ==
    IF i > Len(text) THEN <<>>
    ELSE LET e == MatchEnd(text, i)
         IN  IF e > 0 THEN <<SubSeq(text, i, e)>> \o FindAll(text, e + 1)
             ELSE FindAll(text, i + 1)

\* a faulty variant of ParseDuration: the last match taken, not the first
ParseDurationLast(text) ==
    LET found == FindAll(text, 1)
    IN  IF found = <<>> THEN [ok |-> FALSE, value |-> None, err |-> Raise("IndexError", <<>>)]
        ELSE [ok |-> TRUE, value |-> ParseFloat(found[Len(found)]), err |-> NoErr]

\* time_taken = re.findall(pattern, stdout.decode())[0]; return float(time_taken)
ParseDuration(text) ==
    LET found == FindAll(text, 1)
    IN  IF found = <<>> THEN [ok |-> FALSE, value |-> None, err |-> Raise("IndexError", <<>>)]
        ELSE [ok |-> TRUE, value |-> ParseFloat(found[1]), err |-> NoErr]

(***************************************************************************)
(* The records of sample_and_bench and the data of write_into_csv.         *)
(***************************************************************************)
\* {bench_data["parameter"]: parameter, bench_data["output"]: output}
SampleAndBenchRecord(bench_data, parameter, out) ==
    [cols |-> <<bench_data.parameter, bench_data.output>>, vals |-> <<parameter, out>>]

Params == {1, 2}
Outputs == {ParseFloat(<<"1", ".", "5">>), ParseFloat(<<"2", ".", "0">>)}
Records == {SampleAndBenchRecord(ConfigJson.benches[b], p, o) :
               b \in DOMAIN ConfigJson.benches, p \in Params, o \in Outputs}

\* data: a dict of column name -> list of values, built from records of one benchmark
DataOf(cols, recs) == [cols |-> cols, rows |-> [i \in 1..Len(recs) |-> recs[i].vals]]
Batches ==
    UNION {{DataOf(cols, recs) :
               recs \in SeqsUpTo({r \in Records : r.cols = cols}, MaxBatch)} :
           cols \in {r.cols : r \in Records}}

(***************************************************************************)
(* The dataset file: pandas' to_csv and read_csv on a two-column file.     *)
(***************************************************************************)
NoFile == [exists |-> FALSE, lines |-> <<>>]

\* a faulty variant of ToCsvNew: index=False forgotten, so an index column leads the header
ToCsvNewWithIndex(headers) == [exists |-> TRUE, lines |-> <<(<<"">> \o headers)>>]

\* pd.DataFrame(columns=headers).to_csv(path, index=False): mode "w", header row only
ToCsvNew(headers) == [exists |-> TRUE, lines |-> <<headers>>]

\* pd.read_csv(path, nrows=0).columns.tolist(): the first line's cells, a
\* repeated name made unique by pandas as name.1
ReadCsvColumns(f) ==
    LET first == f.lines[1]
    IN  IF first[1] = first[2] THEN <<first[1], first[1] \o ".1">> ELSE first

\* a faulty variant of HeadersMismatch: the lists compared, not the sets
HeadersMismatchOrdered(headers, existing_headers) == headers # existing_headers

\* set(headers) != set(existing_headers)
HeadersMismatch(headers, existing_headers) == SetOf(headers) # SetOf(existing_headers)

\* one row of df.to_csv(f, header=False, index=False)
CsvRow(vals) == <<IntStr(vals[1]), FloatStr(vals[2])>>

\* a faulty variant of AppendCsv: header=False forgotten, so every call writes the column names
AppendCsvWithHeader(f, data) ==
    [exists |-> TRUE,
     lines  |-> f.lines \o <<data.cols>> \o [i \in 1..Len(data.rows) |-> CsvRow(data.rows[i])]]

\* a faulty variant of AppendCsv: the column names are written when the call creates the file
AppendCsvHeaderIfNew(f, data) ==
    [exists |-> TRUE,
     lines  |-> (IF f.exists THEN f.lines ELSE <<data.cols>>)
                \o [i \in 1..Len(data.rows) |-> CsvRow(data.rows[i])]]

\* open(path, "a") then df.to_csv(f, header=False, index=False): the file is
\* created when absent, and the rows are written after what it holds
AppendCsv(f, data) ==
    [exists |-> TRUE,
     lines  |-> f.lines \o [i \in 1..Len(data.rows) |-> CsvRow(data.rows[i])]]

\* the existing-file branch of init_csv: read_csv raises EmptyDataError on a file
\* with no line, the header comparison raises ValueError naming existing_headers
CheckExisting(f, headers) ==
    IF f.lines = <<>> THEN Raise("EmptyDataError", <<>>)
    ELSE IF HeadersMismatch(headers, ReadCsvColumns(f))
    THEN Raise("ValueError", ReadCsvColumns(f))
    ELSE NoErr

\* init_csv(csv_file_path, bench_function): the file and outcome it leaves
InitCsv(f, bench_function) ==
    LET loaded == LoadBenchFunctionData(bench_function)
        headers == <<loaded.data.parameter, loaded.data.output>>
    IN  IF ~loaded.ok THEN [file |-> f, err |-> loaded.err]
        ELSE IF f.exists
        THEN [file |-> f, err |-> CheckExisting(f, headers)]
        ELSE [file |-> ToCsvNew(headers), err |-> NoErr]

\* a faulty variant of WriteIntoCsv: the record's columns are checked against the header row
WriteIntoCsvValidated(f, data) ==
    IF f.exists /\ f.lines # <<>> /\ HeadersMismatch(data.cols, ReadCsvColumns(f))
    THEN [file |-> f, err |-> Raise("ValueError", ReadCsvColumns(f))]
    ELSE [file |-> AppendCsv(f, data), err |-> NoErr]

\* write_into_csv(data, csv_file_path)
WriteIntoCsv(f, data) == [file |-> AppendCsv(f, data), err |-> NoErr]

(***************************************************************************)
(* Spec: the dataset file under any sequence of init_csv and               *)
(* write_into_csv calls of one single-threaded caller.                     *)
(***************************************************************************)
NoCall == [op |-> "", bench |-> "", data |-> None, before |-> NoFile]
NoOrigin == [by |-> "", header |-> <<>>, accepted |-> {}]
NoLocals ==
    /\ value = None /\ draws = 0 /\ stdout = None /\ output = None
    /\ result = None /\ steps = <<>>
IdleCall ==
    /\ pc = "idle" /\ args = None /\ NoLocals

InitFile ==
    /\ file = NoFile /\ err = NoErr /\ last = NoCall
    /\ origin = NoOrigin /\ appended = <<>>

Init == InitFile /\ IdleCall /\ procs = <<>>

CallInitCsv(bench_function) ==
    LET r == InitCsv(file, bench_function)
    IN  /\ file' = r.file
        /\ err' = r.err
        /\ last' = [op |-> "init_csv", bench |-> bench_function, data |-> None,
                    before |-> file]
        /\ origin' =
               LET ok == IF r.err = NoErr
                         THEN origin.accepted \cup {HeadersOf(bench_function)}
                         ELSE origin.accepted
               IN  IF ~file.exists /\ r.file.exists
                   THEN [by |-> "init_csv", header |-> r.file.lines[1], accepted |-> ok]
                   ELSE [origin EXCEPT !.accepted = ok]
        /\ appended' = appended
        /\ UNCHANGED <<callVars, procs>>

CallWriteIntoCsv(data) ==
    LET r == WriteIntoCsv(file, data)
    IN  /\ Len(file.lines) + Len(data.rows) <= MaxLines
        /\ file' = r.file
        /\ err' = r.err
        /\ last' = [op |-> "write_into_csv", bench |-> "", data |-> data,
                    before |-> file]
        /\ origin' = IF ~file.exists /\ r.file.exists
                     THEN [by |-> "write_into_csv", header |-> <<>>, accepted |-> {}]
                     ELSE origin
        /\ appended' = appended \o
               [i \in 1..Len(data.rows) |-> [cols |-> data.cols, vals |-> data.rows[i]]]
        /\ UNCHANGED <<callVars, procs>>

Next ==
    \/ \E b \in BenchNames : CallInitCsv(b)
    \/ \E d \in Batches : CallWriteIntoCsv(d)

Spec == Init /\ [][Next]_vars

(***************************************************************************)
(* Claims about the dataset file (checked under Spec).                     *)
(***************************************************************************)
RowsWritten(data) == [i \in 1..Len(data.rows) |-> CsvRow(data.rows[i])]
LastInit == last.op = "init_csv" /\ last.bench \in Configured
LastWrite == last.op = "write_into_csv"

\* C1: init_csv on a path with no file creates a file holding exactly the header
\* row <<parameter name, output name>> and no data row; init_csv called again with
\* the same benchmark on the file it created, whatever was appended meanwhile,
\* returns normally and leaves the file as it was.
C1_InitCreatesThenNoop ==
    LastInit =>
        /\ ~last.before.exists =>
               /\ err = NoErr
               /\ file = [exists |-> TRUE, lines |-> <<HeadersOf(last.bench)>>]
        /\ (/\ last.before.exists
            /\ origin.by = "init_csv"
            /\ origin.header = HeadersOf(last.bench)) =>
               /\ err = NoErr
               /\ file = last.before

C1_Witness ==
    /\ LastInit /\ last.before.exists /\ err = NoErr
    /\ origin.by = "init_csv" /\ origin.header = HeadersOf(last.bench)
    /\ Len(file.lines) = 3

\* C2: init_csv on an existing file whose header names, as a set, differ from the
\* benchmark's two names fails with the ValueError that names the existing headers
\* and leaves the file as it was; a file whose header is the two names in
\* output-then-parameter order is accepted.
C2_MismatchRejected ==
    (LastInit /\ last.before.exists /\ last.before.lines # <<>>) =>
        LET existing == last.before.lines[1]
            expected == HeadersOf(last.bench)
        IN  /\ SetOf(existing) # SetOf(expected) =>
                   /\ err = Raise("ValueError", existing)
                   /\ file = last.before
            /\ existing = <<expected[2], expected[1]>> =>
                   /\ err = NoErr
                   /\ file = last.before

C2_Witness ==
    /\ LastInit /\ origin.by = "init_csv" /\ err.kind = "ValueError"
    /\ err.msg = origin.header /\ Len(file.lines) > 1 /\ file = last.before

\* C3: a file created by init_csv holds the header row init_csv wrote followed by
\* exactly the rows of the write_into_csv calls made since, in call order, equal
\* rows kept.
C3_AppendOnly ==
    origin.by = "init_csv" =>
        file.lines = <<origin.header>> \o [i \in 1..Len(appended) |-> CsvRow(appended[i].vals)]

C3_Witness ==
    /\ origin.by = "init_csv" /\ Len(appended) = 2
    /\ appended[1].vals = appended[2].vals /\ Len(file.lines) = 3

\* C4 as stated: no record whose column names differ from the file's headers is
\* ever written to a file init_csv created.
C4_AppendValidated ==
    origin.by = "init_csv" =>
        \A i \in 1..Len(appended) : SetOf(appended[i].cols) = SetOf(file.lines[1])

\* C4 amended: the header row of a file init_csv created never changes, and
\* write_into_csv checks nothing: it returns normally and writes the record's rows
\* after the existing lines, whatever the record's column names are.
C4_HeaderFixedAppendUnchecked ==
    /\ origin.by = "init_csv" => file.lines[1] = origin.header
    /\ LastWrite =>
           /\ err = NoErr
           /\ file.lines = last.before.lines \o RowsWritten(last.data)

C4_Witness ==
    /\ LastWrite /\ origin.by = "init_csv" /\ err = NoErr
    /\ Len(last.data.rows) > 0
    /\ SetOf(last.data.cols) # SetOf(file.lines[1])
    /\ file.lines[Len(file.lines)] = CsvRow(last.data.rows[Len(last.data.rows)])

\* the cell of `row` under the header named `name`
CellUnder(header, row, name) == row[CHOOSE k \in 1..Len(header) : header[k] = name]

\* C9: once init_csv has succeeded on the file for a benchmark, every row written
\* from a sample_and_bench record of that benchmark has the parameter under the
\* header named parameter and the timing under the header named output.
C9_ColumnsAligned ==
    (LastWrite /\ last.data.cols \in origin.accepted) =>
        \A i \in 1..Len(last.data.rows) :
            LET row == file.lines[Len(last.before.lines) + i]
                header == file.lines[1]
            IN  /\ CellUnder(header, row, last.data.cols[1]) = IntStr(last.data.rows[i][1])
                /\ CellUnder(header, row, last.data.cols[2]) = FloatStr(last.data.rows[i][2])

\* C10: write_into_csv on a path with no file returns normally and creates the file
\* with the record's rows and no header row; such a file never has a first line
\* that any configured benchmark accepts, and init_csv on it fails with the header
\* ValueError (EmptyDataError while it holds no line) and leaves it as it was.
C10_AppendBeforeInit ==
    /\ (LastWrite /\ ~last.before.exists) =>
           /\ err = NoErr
           /\ file = [exists |-> TRUE, lines |-> RowsWritten(last.data)]
    /\ (origin.by = "write_into_csv" /\ file.lines # <<>>) =>
           \A b \in Configured : SetOf(file.lines[1]) # SetOf(HeadersOf(b))
    /\ (LastInit /\ origin.by = "write_into_csv") =>
           /\ file = last.before
           /\ err = IF file.lines = <<>> THEN Raise("EmptyDataError", <<>>)
                    ELSE Raise("ValueError", file.lines[1])

C10_Witness ==
    /\ LastInit /\ origin.by = "write_into_csv" /\ err.kind = "ValueError"
    /\ file.lines = <<CsvRow(appended[1].vals)>>


(***************************************************************************)
(* SpecSample: sample(min_value, max_value, mean), one loop test per step. *)
(***************************************************************************)
InitSample ==
    /\ InitFile /\ procs = <<>> /\ NoLocals
    /\ pc = "sample_loop"
    /\ args \in [min_value : Ints, max_value : Ints, mean : 0..MaxInt]

\* while value is None: value = int(distribution_sample())
SampleDraw ==
    /\ pc = "sample_loop" /\ value = None
    /\ draws' = draws + 1
    /\ LET S == DistributionSample(args.min_value, args.max_value, args.mean)
       IN  IF S = {}
           THEN /\ err' = Raise("ValueError", <<>>)
                /\ pc' = "raised"
                /\ value' = value
           ELSE /\ \E v \in S : value' = Some(v)
                /\ UNCHANGED <<err, pc>>
    /\ UNCHANGED <<fileVars, args, stdout, output, result, steps, procs>>

\* return value
SampleReturn ==
    /\ pc = "sample_loop" /\ value # None
    /\ result' = value
    /\ pc' = "returned"
    /\ UNCHANGED <<fileVars, err, args, value, draws, stdout, output, steps, procs>>

NextSample == SampleDraw \/ SampleReturn
SpecSample == InitSample /\ [][NextSample]_vars

\* C5: for min_value < max_value, sample returns after exactly one draw an integer
\* v with min_value <= v < max_value and never raises; it returns in no other
\* case; the values it can draw do not depend on mean.
C5_SampleInRange ==
    /\ draws <= 1
    /\ DistributionSample(args.min_value, args.max_value, args.mean)
           = DistributionSample(args.min_value, args.max_value, 0)
    /\ args.min_value < args.max_value => pc # "raised"
    /\ pc = "returned" =>
           /\ args.min_value < args.max_value
           /\ draws = 1 /\ err = NoErr
           /\ result # None
           /\ args.min_value <= result[1] /\ result[1] < args.max_value

C5_Witness ==
    /\ pc = "returned" /\ result = Some(args.min_value)
    /\ args.mean > 0 /\ args.max_value - args.min_value >= 2 /\ args.min_value < 0

(***************************************************************************)
(* SpecParse: bench's parsing lines over every text of at most MaxLen      *)
(* characters of a digit, a zero digit, the point and a letter.            *)
(***************************************************************************)
Alphabet == {"0", "1", ".", "a"}
Texts == SeqsUpTo(Alphabet, MaxLen)

InitParse ==
    /\ InitFile /\ procs = <<>>
    /\ pc = "parse" /\ args = None
    /\ value = None /\ draws = 0 /\ output = None /\ result = None /\ steps = <<>>
    /\ stdout \in {Some(t) : t \in Texts}

ParseStep ==
    /\ pc = "parse"
    /\ LET r == ParseDuration(stdout[1])
       IN  /\ output' = IF r.ok THEN Some(r.value) ELSE None
           /\ err' = r.err
           /\ pc' = IF r.ok THEN "returned" ELSE "raised"
    /\ UNCHANGED <<fileVars, args, value, draws, stdout, result, steps, procs>>

NextParse == ParseStep
SpecParse == InitParse /\ [][NextParse]_vars

\* s is digits, a point, digits
IsDecimal(s) ==
    \E k \in 2..(Len(s) - 1) :
        /\ s[k] = "."
        /\ \A i \in 1..Len(s) : i # k => IsDigit(s[i])
\* the substrings of text that are decimals, as <<first index, last index>>
DecimalsIn(text) ==
    {ij \in (1..Len(text)) \X (1..Len(text)) :
        ij[1] <= ij[2] /\ IsDecimal(SubSeq(text, ij[1], ij[2]))}
\* the leftmost of them, the longest at that index
LeftmostDecimal(text) ==
    CHOOSE ij \in DecimalsIn(text) :
        \A kl \in DecimalsIn(text) :
            ij[1] < kl[1] \/ (ij[1] = kl[1] /\ ij[2] >= kl[2])

\* C6: the parse returns the value of the leftmost substring of the output that is
\* digits '.' digits (the longest one starting there) whenever the output holds
\* such a substring, and otherwise raises and returns no value.
C6_FirstDecimalOrError ==
    pc \in {"returned", "raised"} =>
        LET text == stdout[1]
        IN  IF DecimalsIn(text) = {}
            THEN pc = "raised" /\ err.kind = "IndexError" /\ output = None
            ELSE /\ pc = "returned" /\ err = NoErr
                 /\ output = Some(ParseFloat(SubSeq(text, LeftmostDecimal(text)[1],
                                                    LeftmostDecimal(text)[2])))

C6_Witness ==
    /\ pc = "returned" /\ stdout = Some(<<"1", ".", "0", "a", "0", ".", "1">>)
    /\ output = Some([ip |-> 1, frac |-> <<>>])

C6_WitnessNoMatch ==
    /\ pc = "raised" /\ stdout = Some(<<"1", "0", "a", ".", "1">>) /\ output = None

(***************************************************************************)
(* SpecCycle: one sample_and_bench call, statement by statement.           *)
(***************************************************************************)
\* a faulty variant of SampleAndBenchOrder: the config looked up before anything else
SampleAndBenchOrderConfigFirst == <<"load", "sample", "run", "parse">>

\* the statements of sample_and_bench in source order: sample (line 68), bench's
\* subprocess and bench's parse (line 69), load_bench_function_data (line 70)
SampleAndBenchOrder == <<"sample", "run", "parse", "load">>

FirstStmt == SampleAndBenchOrder[1]
StmtAfter(stmt) ==
    LET i == CHOOSE k \in 1..Len(SampleAndBenchOrder) : SampleAndBenchOrder[k] = stmt
    IN  IF i < Len(SampleAndBenchOrder) THEN SampleAndBenchOrder[i + 1] ELSE "return"

\* what the benchmark subprocess can print: a timing, a timing after another
\* number, an integer only
BenchOutputs == {<<"t", " ", "1", ".", "5", "0">>,
                 <<"1", "0", " ", "2", ".", "0", " ", "1", ".", "5">>,
                 <<"1", "0">>}

InitCycle ==
    /\ InitFile /\ procs = <<>> /\ NoLocals
    /\ pc = FirstStmt
    /\ args \in [bench_function : BenchNames, min_value : Ints, max_value : Ints]

\* parameter = sample(min_value, max_value)
CycleSample ==
    /\ pc = "sample"
    /\ steps' = Append(steps, "Sampler")
    /\ draws' = draws + 1
    /\ LET S == DistributionSample(args.min_value, args.max_value, 0)
       IN  IF S = {}
           THEN /\ err' = Raise("ValueError", <<>>)
                /\ pc' = "raised"
                /\ value' = value
           ELSE /\ \E v \in S : value' = Some(v)
                /\ pc' = StmtAfter("sample")
                /\ err' = err
    /\ UNCHANGED <<fileVars, args, stdout, output, result, procs>>

\* subprocess.check_output(...): the text printed, or CalledProcessError
CycleRun ==
    /\ pc = "run"
    /\ steps' = Append(steps, "ProcessRunner")
    /\ \/ /\ err' = Raise("CalledProcessError", <<>>)
          /\ pc' = "raised"
          /\ stdout' = stdout
       \/ /\ \E t \in BenchOutputs : stdout' = Some(t)
          /\ pc' = StmtAfter("run")
          /\ err' = err
    /\ UNCHANGED <<fileVars, args, value, draws, output, result, procs>>

\* the parsing lines of bench
CycleParse ==
    /\ pc = "parse"
    /\ steps' = Append(steps, "ResultParser")
    /\ LET r == ParseDuration(stdout[1])
       IN  /\ output' = IF r.ok THEN Some(r.value) ELSE None
           /\ err' = IF r.ok THEN err ELSE r.err
           /\ pc' = IF r.ok THEN StmtAfter("parse") ELSE "raised"
    /\ UNCHANGED <<fileVars, args, value, draws, stdout, result, procs>>

\* bench_data = load_bench_function_data(bench_function)
CycleLoad ==
    /\ pc = "load"
    /\ steps' = Append(steps, "ConfigResolver")
    /\ LET r == LoadBenchFunctionData(args.bench_function)
       IN  /\ err' = IF r.ok THEN err ELSE r.err
           /\ pc' = IF r.ok THEN StmtAfter("load") ELSE "raised"
    /\ UNCHANGED <<fileVars, args, value, draws, stdout, output, result, procs>>

\* return {bench_data["parameter"]: parameter, bench_data["output"]: output}
CycleReturn ==
    /\ pc = "return"
    /\ result' = Some(SampleAndBenchRecord(
                          LoadBenchFunctionData(args.bench_function).data,
                          value[1], output[1]))
    /\ pc' = "returned"
    /\ UNCHANGED <<fileVars, err, args, value, draws, stdout, output, steps, procs>>

NextCycle == CycleSample \/ CycleRun \/ CycleParse \/ CycleLoad \/ CycleReturn
SpecCycle == InitCycle /\ [][NextCycle]_vars

IsPrefix(s, t) == Len(s) <= Len(t) /\ \A i \in 1..Len(s) : s[i] = t[i]

\* C7 as stated: the Config Resolver has run before the Process Runner starts, and
\* a cycle that fails on a benchmark name absent from the config has not started
\* the benchmark subprocess.
C7_ConfigBeforeRun ==
    /\ \A i \in 1..Len(steps) :
           steps[i] = "ProcessRunner" => \E j \in 1..(i - 1) : steps[j] = "ConfigResolver"
    /\ err.kind = "KeyError" => \A i \in 1..Len(steps) : steps[i] # "ProcessRunner"

\* C7 amended: the components run in the order Sampler, Process Runner, Result
\* Parser, Config Resolver; the cycle fails on an absent benchmark name only once
\* the subprocess has run and its output has been parsed, and returns no record.
C7_ConfigAfterParse ==
    /\ IsPrefix(steps, <<"Sampler", "ProcessRunner", "ResultParser", "ConfigResolver">>)
    /\ err.kind = "KeyError" =>
           /\ args.bench_function \notin Configured
           /\ steps = <<"Sampler", "ProcessRunner", "ResultParser", "ConfigResolver">>
           /\ value # None /\ stdout # None /\ output # None
           /\ pc = "raised" /\ result = None
    /\ args.bench_function \notin Configured => pc # "returned"

C7_Witness ==
    /\ err.kind = "KeyError" /\ pc = "raised" /\ Len(steps) = 4
    /\ output = Some(ParseFloat(<<"1", ".", "5">>))

(***************************************************************************)
(* SpecConc: one or two processes, each running init_csv and then          *)
(* write_into_csv with one record on the same path for the same benchmark. *)
(* A step is one file-system call of the source: the existence test, the   *)
(* header read, the creating to_csv, the appending to_csv.                 *)
(***************************************************************************)
ConcBench == "sort_vec"
OneRowBatches == {d \in Batches : d.cols = HeadersOf(ConcBench) /\ Len(d.rows) = 1}
Proc == [pc : {"exists"}, data : OneRowBatches]

InitConc ==
    /\ InitFile /\ IdleCall
    /\ procs \in {s \in SeqsUpTo(Proc, 2) : Len(s) >= 1}

\* if csv_file_path.exists():
ProcExists(k) ==
    /\ procs[k].pc = "exists"
    /\ procs' = [procs EXCEPT ![k].pc = IF file.exists THEN "read" ELSE "create"]
    /\ UNCHANGED <<fileVars, err, callVars>>

\* existing_headers = pd.read_csv(...); if set(headers) != set(existing_headers): raise
ProcRead(k) ==
    /\ procs[k].pc = "read"
    /\ LET e == CheckExisting(file, HeadersOf(ConcBench))
       IN  procs' = [procs EXCEPT ![k].pc = IF e = NoErr THEN "write" ELSE "raised"]
    /\ UNCHANGED <<fileVars, err, callVars>>

\* df = pd.DataFrame(columns=headers); df.to_csv(csv_file_path, index=False)
ProcCreate(k) ==
    /\ procs[k].pc = "create"
    /\ file' = ToCsvNew(HeadersOf(ConcBench))
    /\ procs' = [procs EXCEPT ![k].pc = "write"]
    /\ UNCHANGED <<last, origin, appended, err, callVars>>

\* write_into_csv(data, csv_file_path)
ProcWrite(k) ==
    /\ procs[k].pc = "write"
    /\ file' = WriteIntoCsv(file, procs[k].data).file
    /\ procs' = [procs EXCEPT ![k].pc = "done"]
    /\ UNCHANGED <<last, origin, appended, err, callVars>>

NextConc ==
    \/ \E k \in 1..Len(procs) : ProcExists(k)
    \/ \E k \in 1..Len(procs) : ProcRead(k)
    \/ \E k \in 1..Len(procs) : ProcCreate(k)
    \/ \E k \in 1..Len(procs) : ProcWrite(k)
SpecConc == InitConc /\ [][NextConc]_vars

Count(lines, row) == Cardinality({i \in 1..Len(lines) : lines[i] = row})
\* a row that a process has appended is missing from the file
LostRow ==
    \E k \in 1..Len(procs) :
        /\ procs[k].pc = "done"
        /\ Count(file.lines, CsvRow(procs[k].data.rows[1]))
               < Cardinality({j \in 1..Len(procs) :
                                 procs[j].pc = "done" /\ procs[j].data = procs[k].data})
DuplicateHeader == Count(file.lines, HeadersOf(ConcBench)) > 1
AllDone == \A k \in 1..Len(procs) : procs[k].pc = "done"

\* C8: with a single process writing the file no row it appended is ever missing,
\* the header row is never repeated and, once it is done, the file is the header
\* row followed by its row; with two processes a final state that has lost a row
\* is reachable (C8_Witness).
C8_SingleWriterIntact ==
    Len(procs) = 1 =>
        /\ ~LostRow /\ ~DuplicateHeader
        /\ procs[1].pc # "raised"
        /\ AllDone => file.lines = <<HeadersOf(ConcBench), CsvRow(procs[1].data.rows[1])>>

C8_Witness ==
    /\ Len(procs) = 2 /\ AllDone
    /\ LostRow
    /\ procs[1].data # procs[2].data
    /\ file.lines = <<HeadersOf(ConcBench), CsvRow(procs[2].data.rows[1])>>

====
